---- MODULE Spec2Model ----
(***************************************************************************)
(* State-machine model of the bambulab cloud client                        *)
(* (src/src/cloud/mod.rs, src/src/types.rs).                               *)
(*                                                                         *)
(* A String is a sequence of one-element strings.  Where the code looks    *)
(* inside a string (the camera URL) the elements are single characters;    *)
(* where it only moves a string around, an element may stand for a longer  *)
(* run of characters (a base64 segment of a credential, "Bearer ").        *)
(* Option<T> is a sequence of length at most one: << >> is None and        *)
(* <<x>> is Some(x).                                                       *)
(***************************************************************************)
EXTENDS Integers, Sequences, FiniteSets, TLC

VARIABLES login, client, calls

vars == <<login, client, calls>>

\* Number of calls the caller keeps in flight on the one Client.
MaxCalls == 2

----------------------------------------------------------------------------
(* Region                                                                  *)

Region == {"China", "Europe", "NorthAmerica", "AsiaPacific", "Other"}

is_china_mutant(region) == region \in {"China", "AsiaPacific"}

is_china(region) == region = "China"

----------------------------------------------------------------------------
(* String helpers                                                          *)

RECURSIVE IndexFrom(_, _, _)
\* Least index i >= from with s[i] \in stops, or Len(s) + 1 when there is none.
IndexFrom(s, stops, from) ==
    IF from > Len(s) THEN Len(s) + 1
    ELSE IF s[from] \in stops THEN from
    ELSE IndexFrom(s, stops, from + 1)

RECURSIVE LastIndexOf(_, _, _)
\* Greatest index i <= from with s[i] = c, or 0 when there is none.
LastIndexOf(s, c, from) ==
    IF from < 1 THEN 0
    ELSE IF s[from] = c THEN from
    ELSE LastIndexOf(s, c, from - 1)

Contains(s, c) == \E i \in 1..Len(s) : s[i] = c

\* s[from..to], empty when from > to.
Slice(s, from, to) == IF from > to THEN << >> ELSE SubSeq(s, from, to)

----------------------------------------------------------------------------
(* Results.  Ok(v) and Err(e) of every operation share one record shape.   *)
(* variant is the type of the error as the caller sees it: a library error *)
(* ("reqwest::Error", "jsonwebtoken::Error", "url::ParseError") or, after  *)
(* the `?` conversion, a variant of LoginError / DeviceCameraError.  kind  *)
(* is the kind the library error carries (reqwest::Error::is_status,       *)
(* is_decode, ...; jsonwebtoken ErrorKind; url::ParseError).               *)

Ok(v) == [tag |-> "Ok", variant |-> "", kind |-> "", val |-> v]

Err(variant, kind) == [tag |-> "Err", variant |-> variant, kind |-> kind, val |-> << >>]

IsOk(r) == r.tag = "Ok"

NoResult == [tag |-> "None", variant |-> "", kind |-> "", val |-> << >>]

----------------------------------------------------------------------------
(* Access credentials and Token issuance                                   *)

\* What the base64 segments of the credentials below decode to.
HeaderSegments == {"b64{alg:RS256}", "b64{alg:HS256}"}

ClaimsOf(seg) ==
    CASE seg = "b64{username:alice,exp:future}" ->
            [json |-> TRUE, username |-> <<"alice">>, exp |-> "future"]
      [] seg = "b64{username:bob,exp:future}" ->
            [json |-> TRUE, username |-> <<"bob">>, exp |-> "future"]
      [] seg = "b64{username:alice,exp:past}" ->
            [json |-> TRUE, username |-> <<"alice">>, exp |-> "past"]
      [] seg = "b64{exp:future}" ->
            [json |-> TRUE, username |-> << >>, exp |-> "future"]
      [] OTHER ->
            [json |-> FALSE, username |-> << >>, exp |-> "absent"]

\* The accessToken strings the login endpoint may return.
Credentials ==
    { <<"b64{alg:RS256}", ".", "b64{username:alice,exp:future}", ".", "sig:forged">>,
      <<"b64{alg:HS256}", ".", "b64{username:bob,exp:future}", ".", "sig:valid">>,
      <<"b64{alg:RS256}", ".", "b64{username:alice,exp:past}", ".", "sig:valid">>,
      <<"b64{alg:RS256}", ".", "b64{exp:future}", ".", "sig:valid">>,
      <<"b64{alg:RS256}", ".", "b64{username:alice,exp:future}">>,
      <<"plain-string">> }

\* jsonwebtoken::decode with signature validation disabled: the token is
\* split at its last two dots, header and claims are base64/JSON decoded,
\* the claims are deserialized into JWTData (username required) and the
\* registered claims validated (exp required and not in the past).  Neither
\* the algorithm nor the signature is looked at.
jsonwebtoken_decode(jwt) ==
    LET dot2 == LastIndexOf(jwt, ".", Len(jwt))
        message == Slice(jwt, 1, dot2 - 1)
        dot1 == LastIndexOf(message, ".", Len(message))
        header == Slice(message, 1, dot1 - 1)
        payload == Slice(message, dot1 + 1, Len(message))
    IN  IF dot2 = 0 \/ dot1 = 0 THEN Err("jsonwebtoken::Error", "InvalidToken")
        ELSE IF ~(Len(header) = 1 /\ header[1] \in HeaderSegments)
             THEN Err("jsonwebtoken::Error", "Base64")
        ELSE IF Len(payload) # 1 THEN Err("jsonwebtoken::Error", "Base64")
        ELSE LET claims == ClaimsOf(payload[1])
             IN  IF ~claims.json \/ claims.username = << >>
                    THEN Err("jsonwebtoken::Error", "Json")
                 ELSE IF claims.exp = "absent"
                    THEN Err("jsonwebtoken::Error", "MissingRequiredClaim")
                 ELSE IF claims.exp = "past"
                    THEN Err("jsonwebtoken::Error", "ExpiredSignature")
                 ELSE Ok([claims |-> [username |-> claims.username]])

TokenTryFrom_mutant(jwt) ==
    LET token == jsonwebtoken_decode(jwt)
    IN  IF ~IsOk(token) THEN token
        ELSE Ok([jwt |-> Slice(jwt, 1, LastIndexOf(jwt, ".", Len(jwt)) - 1),
                 username |-> token.val.claims.username])

\* impl TryFrom<String> for Token
TokenTryFrom(jwt) ==
    LET token == jsonwebtoken_decode(jwt)
    IN  IF ~IsOk(token) THEN token
        ELSE Ok([jwt |-> jwt, username |-> token.val.claims.username])

----------------------------------------------------------------------------
(* JSON bodies.  A body is a function from the keys of its top-level       *)
(* object to values [type, val]; a body that is no JSON object has no keys.*)
(* Array items are named by an identifier: the items of "devices" by their *)
(* dev_id, the items of "hits" by their task id.                           *)

JString(s) == [type |-> "string", val |-> s]
JNumber(s) == [type |-> "number", val |-> s]
JArray(s) == [type |-> "array", val |-> s]

NotJson == << >>

HasField(body, key, type) == key \in DOMAIN body /\ body[key].type = type

\* reqwest's Response::json: the body deserialized by serde into the typed
\* shape, or a reqwest::Error of kind Decode.
json_error_mutant == Err("reqwest::Error", "Request")

json_error == Err("reqwest::Error", "Decode")

\* struct LoginResponse
LoginResponse(body) ==
    IF HasField(body, "accessToken", "string")
    THEN Ok([access_token |-> body["accessToken"].val])
    ELSE json_error

\* Array items that deserialize into Device / Task (the others lack a field).
DeviceItems == {"d1", "d2"}
TaskItems == {"task1", "task2"}

AllIn(seq, S) == \A i \in 1..Len(seq) : seq[i] \in S

\* struct DevicesResponse
DevicesResponse(body) ==
    IF HasField(body, "devices", "array") /\ AllIn(body["devices"].val, DeviceItems)
    THEN Ok([devices |-> body["devices"].val])
    ELSE json_error

\* struct TasksResponse
TasksResponse(body) ==
    IF /\ HasField(body, "total", "number")
       /\ HasField(body, "hits", "array")
       /\ AllIn(body["hits"].val, TaskItems)
    THEN Ok([total |-> body["total"].val, hits |-> body["hits"].val])
    ELSE json_error

\* struct Account (of its fields, the three the model carries)
Account(body) ==
    IF /\ HasField(body, "uid", "number")
       /\ HasField(body, "account", "string")
       /\ HasField(body, "name", "string")
    THEN Ok([uid |-> body["uid"].val, email |-> body["account"].val,
             name |-> body["name"].val])
    ELSE json_error

\* struct DeviceCameraResponse
DeviceCameraResponse(body) ==
    IF /\ HasField(body, "ttcode", "string")
       /\ HasField(body, "authkey", "string")
       /\ HasField(body, "passwd", "string")
       /\ HasField(body, "region", "string")
    THEN Ok([ttcode |-> body["ttcode"].val, authkey |-> body["authkey"].val,
             passwd |-> body["passwd"].val, region |-> body["region"].val])
    ELSE json_error

----------------------------------------------------------------------------
(* url::Url.  Url::from_str follows the WHATWG URL parser; the part of it  *)
(* a string "scheme://authority/path?query#fragment" with a non-special    *)
(* scheme goes through is modelled character by character.                 *)

RECURSIVE TrimLeft(_)
TrimLeft(s) == IF s # << >> /\ Head(s) = " " THEN TrimLeft(Tail(s)) ELSE s

RECURSIVE TrimRight(_)
TrimRight(s) ==
    IF s # << >> /\ s[Len(s)] = " " THEN TrimRight(SubSeq(s, 1, Len(s) - 1)) ELSE s

RECURSIVE PercentEncode(_)
\* Path, query and fragment keep every character of the input except the
\* ones of their percent-encode sets; of the model's characters that is the
\* space.
PercentEncode(s) ==
    IF s = << >> THEN << >>
    ELSE (IF Head(s) = " " THEN <<"%", "2", "0">> ELSE <<Head(s)>>)
         \o PercentEncode(Tail(s))

\* The percent escapes the model's characters can form.
HexChar(h1, h2) ==
    CASE h1 = "2" /\ h2 = "0" -> <<" ">>
      [] h1 = "2" /\ h2 = "6" -> <<"&">>
      [] OTHER -> << >>

RECURSIVE FormDecode(_)
\* form_urlencoded decoding of a name or value: "+" is a space and %XX the
\* byte XX.
FormDecode(s) ==
    IF s = << >> THEN << >>
    ELSE IF Head(s) = "+" THEN <<" ">> \o FormDecode(Tail(s))
    ELSE IF Head(s) = "%" /\ Len(s) >= 3 /\ HexChar(s[2], s[3]) # << >>
         THEN HexChar(s[2], s[3]) \o FormDecode(SubSeq(s, 4, Len(s)))
    ELSE <<Head(s)>> \o FormDecode(Tail(s))

RECURSIVE SplitOn(_, _)
\* The pieces of s between occurrences of c.
SplitOn(s, c) ==
    LET i == IndexFrom(s, {c}, 1)
    IN  IF i > Len(s) THEN <<s>>
        ELSE <<Slice(s, 1, i - 1)>> \o SplitOn(Slice(s, i + 1, Len(s)), c)

RECURSIVE PairsOf(_)
PairsOf(pieces) ==
    IF pieces = << >> THEN << >>
    ELSE LET piece == Head(pieces)
             eq == IndexFrom(piece, {"="}, 1)
         IN  (IF piece = << >> THEN << >>
              ELSE << <<FormDecode(Slice(piece, 1, eq - 1)),
                        FormDecode(Slice(piece, eq + 1, Len(piece)))>> >>)
             \o PairsOf(Tail(pieces))

\* Url::query_pairs: the (name, value) pairs of the query, in order.
query_pairs(url) == IF url.query = << >> THEN << >> ELSE PairsOf(SplitOn(url.query[1], "&"))

\* Host of an authority: what follows the userinfo and precedes the port.
HostOf(authority) ==
    LET at == LastIndexOf(authority, "@", Len(authority))
        hostport == Slice(authority, at + 1, Len(authority))
        colon == IndexFrom(hostport, {":"}, 1)
    IN  Slice(hostport, 1, colon - 1)

\* Url::from_str
Url_from_str(input) ==
    LET s == TrimRight(TrimLeft(input))
        colon == IndexFrom(s, {":", "/", "?", "#"}, 1)
        hasAuthority == Len(s) >= colon + 2 /\ s[colon + 1] = "/" /\ s[colon + 2] = "/"
        authStart == IF hasAuthority THEN colon + 3 ELSE colon + 1
        authEnd == IF hasAuthority THEN IndexFrom(s, {"/", "?", "#"}, authStart) - 1
                   ELSE authStart - 1
        authority == Slice(s, authStart, authEnd)
        pathEnd == IndexFrom(s, {"?", "#"}, authEnd + 1) - 1
        hasQuery == pathEnd < Len(s) /\ s[pathEnd + 1] = "?"
        queryEnd == IF hasQuery THEN IndexFrom(s, {"#"}, pathEnd + 2) - 1 ELSE pathEnd
        hasFragment == queryEnd < Len(s)
    IN  IF colon = 1 \/ colon > Len(s) \/ s[colon] # ":"
        THEN Err("url::ParseError", "RelativeUrlWithoutBase")
        ELSE IF authority # << >> /\ HostOf(authority) = << >>
        THEN Err("url::ParseError", "EmptyHost")
        ELSE Ok([scheme |-> Slice(s, 1, colon - 1),
                 has_authority |-> hasAuthority,
                 host |-> HostOf(authority),
                 path |-> PercentEncode(Slice(s, authEnd + 1, pathEnd)),
                 query |-> IF hasQuery
                           THEN <<PercentEncode(Slice(s, pathEnd + 2, queryEnd))>>
                           ELSE << >>,
                 fragment |-> IF hasFragment
                              THEN <<PercentEncode(Slice(s, queryEnd + 2, Len(s)))>>
                              ELSE << >>])

\* Url::as_str
as_str(url) ==
    url.scheme \o <<":">>
    \o (IF url.has_authority THEN <<"/", "/">> \o url.host ELSE << >>)
    \o url.path
    \o (IF url.query = << >> THEN << >> ELSE <<"?">> \o url.query[1])
    \o (IF url.fragment = << >> THEN << >> ELSE <<"#">> \o url.fragment[1])

\* format!("bambu:///{}?authkey={}&passwd={}&region={}", ...)
format_camera_url(response) ==
    <<"b", "a", "m", "b", "u", ":", "/", "/", "/">> \o response.ttcode
    \o <<"?", "a", "u", "t", "h", "k", "e", "y", "=">> \o response.authkey
    \o <<"&", "p", "a", "s", "s", "w", "d", "=">> \o response.passwd
    \o <<"&", "r", "e", "g", "i", "o", "n", "=">> \o response.region

----------------------------------------------------------------------------
(* Requests                                                                *)

Https(host, path) == [scheme |-> "https", host |-> host, path |-> path]

Pair(name, value) == [name |-> name, value |-> value]

Request(method, url, query, headers, body) ==
    [method |-> method, url |-> url, query |-> query, headers |-> headers,
     body |-> body]

\* format!("Bearer {}", self.auth_token.jwt)
Bearer(jwt) == <<"Bearer ">> \o jwt

\* The request Client::login builds; .json() adds Content-Type.
login_request(region, email, password) ==
    Request("POST",
            IF is_china(region)
            THEN Https("api.bambulab.cn", "/v1/user-service/user/login")
            ELSE Https("api.bambulab.com", "/v1/user-service/user/login"),
            << >>,
            <<Pair("Content-Type", <<"application/json">>)>>,
            [account |-> JString(email), password |-> JString(password)])

\* The request Client::get_profile builds.
get_profile_request(self) ==
    Request("GET",
            IF is_china(self.region)
            THEN Https("api.bambulab.cn", "/v1/user-service/my/profile")
            ELSE Https("api.bambulab.com", "/v1/user-service/my/profile"),
            << >>,
            <<Pair("Authorization", Bearer(self.auth_token.jwt))>>,
            NotJson)

\* The request Client::get_devices builds.
get_devices_request(self) ==
    Request("GET",
            IF is_china(self.region)
            THEN Https("api.bambulab.cn", "/v1/iot-service/api/user/bind")
            ELSE Https("api.bambulab.com", "/v1/iot-service/api/user/bind"),
            << >>,
            <<Pair("Authorization", Bearer(self.auth_token.jwt))>>,
            NotJson)

\* Option::unwrap_or_default on an Option<String>
unwrap_or_default(option) == IF option = << >> THEN << >> ELSE option[1]

tasks_query_mutant(only_device) ==
    <<Pair("limit", <<"500">>)>>
    \o (IF only_device = << >> THEN << >> ELSE <<Pair("deviceId", only_device[1])>>)

\* The array get_tasks passes to RequestBuilder::query.
tasks_query(only_device) ==
    <<Pair("limit", <<"500">>), Pair("deviceId", unwrap_or_default(only_device))>>

\* The request Client::get_tasks builds.
get_tasks_request(self, only_device) ==
    Request("GET",
            IF is_china(self.region)
            THEN Https("api.bambulab.cn", "/v1/user-service/my/tasks")
            ELSE Https("api.bambulab.com", "/v1/user-service/my/tasks"),
            tasks_query(only_device),
            <<Pair("Authorization", Bearer(self.auth_token.jwt))>>,
            NotJson)

camera_headers_mutant(c) ==
    <<Pair("Authorization", Bearer(c.auth_token.jwt)),
      Pair("user-id", c.auth_token.jwt)>>
    \o <<Pair("Content-Type", <<"application/json">>)>>

\* The headers Device::get_bambu_camera_url sets; .json() adds Content-Type.
camera_headers(c) ==
    <<Pair("Authorization", Bearer(c.auth_token.jwt)),
      Pair("user-id", c.auth_token.username)>>
    \o <<Pair("Content-Type", <<"application/json">>)>>

\* The request Device::get_bambu_camera_url builds.
get_bambu_camera_url_request(dev_id, c) ==
    Request("POST",
            IF is_china(c.region)
            THEN Https("api.bambulab.cn", "/v1/iot-service/api/user/ttcode")
            ELSE Https("api.bambulab.com", "/v1/iot-service/api/user/ttcode"),
            << >>,
            camera_headers(c),
            [dev_id |-> JString(dev_id)])

\* Client::mqtt_host
mqtt_host(self) ==
    IF is_china(self.region) THEN "cn.mqtt.bambulab.com" ELSE "us.mqtt.bambulab.com"

----------------------------------------------------------------------------
(* Responses: status check, decoding and what each operation returns       *)

error_for_status_mutant(status) == Ok(status)

\* reqwest's Response::error_for_status: an error for 4xx and 5xx.
error_for_status(status) ==
    IF status >= 400 /\ status <= 599 THEN Err("reqwest::Error", "Status")
    ELSE Ok(status)

LoginError_from_mutant(e) == Err("LoginError::Reqwest", e.kind)

\* enum LoginError, #[from] conversions
LoginError_from(e) ==
    IF e.variant = "reqwest::Error" THEN Err("LoginError::Reqwest", e.kind)
    ELSE Err("LoginError::Decode", e.kind)

\* enum DeviceCameraError, #[from] conversions
DeviceCameraError_from(e) ==
    IF e.variant = "reqwest::Error" THEN Err("DeviceCameraError::Reqwest", e.kind)
    ELSE Err("DeviceCameraError::Url", e.kind)

\* Client::login from the decoded body on: Ok(Self { region, client, auth_token })
login_finish(region, body) ==
    LET response == LoginResponse(body)
    IN  IF ~IsOk(response) THEN LoginError_from(response)
        ELSE LET token == TokenTryFrom(response.val.access_token)
             IN  IF ~IsOk(token) THEN LoginError_from(token)
                 ELSE Ok([region |-> region, auth_token |-> token.val])

\* Client::get_profile from the decoded body on
get_profile_finish(body) == Account(body)

\* Client::get_devices from the decoded body on: Ok(response.devices)
get_devices_finish(body) ==
    LET response == DevicesResponse(body)
    IN  IF ~IsOk(response) THEN response ELSE Ok(response.val.devices)

\* Client::get_tasks from the decoded body on: Ok(response.hits)
get_tasks_finish(body) ==
    LET response == TasksResponse(body)
    IN  IF ~IsOk(response) THEN response ELSE Ok(response.val.hits)

\* Device::get_bambu_camera_url from the decoded body on
get_bambu_camera_url_finish(body) ==
    LET response == DeviceCameraResponse(body)
    IN  IF ~IsOk(response) THEN DeviceCameraError_from(response)
        ELSE LET url == Url_from_str(format_camera_url(response.val))
             IN  IF ~IsOk(url) THEN DeviceCameraError_from(url) ELSE url

----------------------------------------------------------------------------
(* What the caller passes in and what the server may answer                *)

Emails == {<<"user@example.com">>}
Passwords == {<<"hunter2">>}

\* only_device: None, Some("d1")
OnlyDevice == {<< >>, << <<"d1">> >>}

\* dev_id of the Device the camera URL is asked for
DevIds == {<<"d1">>}

Statuses == {200, 401, 500}

LoginBodies ==
    {[accessToken |-> JString(c)] : c \in Credentials}
    \cup {[token |-> JString(<<"plain-string">>)],
          [accessToken |-> JNumber(<<"42">>)],
          NotJson}

ProfileBodies ==
    {[uid |-> JNumber(<<"7">>), account |-> JString(<<"user@example.com">>),
      name |-> JString(<<"alice">>)],
     [uid |-> JNumber(<<"7">>), account |-> JString(<<"user@example.com">>)],
     [uid |-> JString(<<"seven">>), account |-> JString(<<"user@example.com">>),
      name |-> JString(<<"alice">>)]}

DevicesBodies ==
    {[devices |-> JArray(<<"d1", "d2">>)],
     [devices |-> JArray(<<"d1", "device-without-dev_id">>)],
     [items |-> JArray(<<"d1">>)]}

TasksBodies ==
    {[total |-> JNumber(<<"9">>), hits |-> JArray(<<"task2", "task1">>)],
     [hits |-> JArray(<<"task1", "task2">>)],
     [total |-> JNumber(<<"1">>), hits |-> JArray(<<"task-without-id">>)]}

Session(ttcode, authkey, passwd, region) ==
    [ttcode |-> JString(ttcode), authkey |-> JString(authkey),
     passwd |-> JString(passwd), region |-> JString(region)]

CameraBodies ==
    {Session(<<"t">>, <<"a">>, <<"p">>, <<"r">>),
     Session(<<"t">>, <<"a", " ", "b">>, <<"p", "=", "b">>, <<"r">>),
     Session(<<"t">>, <<"a", "&", "b">>, <<"p">>, <<"r">>),
     Session(<<"t">>, <<"a">>, <<"p", "#", "b">>, <<"r">>),
     Session(<<"t", "?", "b">>, <<"a">>, <<"p">>, <<"r">>),
     [ttcode |-> JString(<<"t">>), authkey |-> JString(<<"a">>),
      passwd |-> JNumber(<<"1">>)]}

BodiesOf(op) ==
    CASE op = "get_profile" -> ProfileBodies
      [] op = "get_devices" -> DevicesBodies
      [] op = "get_tasks" -> TasksBodies
      [] op = "get_bambu_camera_url" -> CameraBodies
      [] OTHER -> {}

----------------------------------------------------------------------------
(* State                                                                   *)

Calls == 1..MaxCalls

\* An invocation that has not started.
Idle ==
    [pc |-> "idle", op |-> "", region |-> "", arg |-> << >>, sends |-> 0,
     request |-> << >>, status |-> << >>, body |-> << >>, decoded |-> FALSE,
     result |-> NoResult]

Init ==
    /\ login = Idle
    /\ client = << >>
    /\ calls = [i \in Calls |-> Idle]

\* An invocation at its first await: the request is built and send() called.
Sending(op, region, arg, request) ==
    [Idle EXCEPT !.pc = "send", !.op = op, !.region = region, !.arg = arg,
                 !.sends = 1, !.request = <<request>>]

Done(call, result) == [call EXCEPT !.pc = "done", !.result = result]

borrow_self_mutant(self) == [self EXCEPT !.region = "China"]

\* &self: the operations borrow the Client shared and leave it as it is.
borrow_self(self) == self

\* What an operation returns from the decoded body on.
Finish(call, body) ==
    CASE call.op = "login" -> login_finish(call.region, body)
      [] call.op = "get_profile" -> get_profile_finish(body)
      [] call.op = "get_devices" -> get_devices_finish(body)
      [] call.op = "get_tasks" -> get_tasks_finish(body)
      [] call.op = "get_bambu_camera_url" -> get_bambu_camera_url_finish(body)

\* The error type of an operation's `?` on a reqwest::Error.
Propagate(call, e) ==
    CASE call.op = "login" -> LoginError_from(e)
      [] call.op = "get_bambu_camera_url" -> DeviceCameraError_from(e)
      [] OTHER -> e

\* send().await fails: no response arrives.
AfterSendError(call) == Done(call, Propagate(call, Err("reqwest::Error", "Request")))

\* send().await returns a response; error_for_status()? looks at its status.
AfterResponse(call, status) ==
    LET checked == error_for_status(status)
    IN  IF IsOk(checked)
        THEN [call EXCEPT !.pc = "body", !.status = <<status>>]
        ELSE Done([call EXCEPT !.status = <<status>>], Propagate(call, checked))

\* json().await fails reading the body.
AfterBodyError(call) == Done(call, Propagate(call, Err("reqwest::Error", "Body")))

\* json().await has the whole body and deserializes it.
AfterBody(call, body) ==
    Done([call EXCEPT !.body = <<body>>, !.decoded = TRUE], Finish(call, body))

----------------------------------------------------------------------------
(* Client::login                                                           *)

LoginStart(region, email, password) ==
    /\ login.pc = "idle"
    /\ client = << >>
    /\ login' = Sending("login", region, << >>, login_request(region, email, password))
    /\ UNCHANGED <<client, calls>>

LoginSendError ==
    /\ login.pc = "send"
    /\ login' = AfterSendError(login)
    /\ UNCHANGED <<client, calls>>

LoginResponded(status) ==
    /\ login.pc = "send"
    /\ login' = AfterResponse(login, status)
    /\ UNCHANGED <<client, calls>>

LoginBodyError ==
    /\ login.pc = "body"
    /\ login' = AfterBodyError(login)
    /\ UNCHANGED <<client, calls>>

LoginBody(body) ==
    /\ login.pc = "body"
    /\ login' = AfterBody(login, body)
    /\ client' = IF IsOk(login'.result) THEN <<login'.result.val>> ELSE << >>
    /\ UNCHANGED calls

\* The caller takes a LoginError and may log in again.
LoginFailed ==
    /\ login.pc = "done"
    /\ ~IsOk(login.result)
    /\ login' = Idle
    /\ UNCHANGED <<client, calls>>

----------------------------------------------------------------------------
(* The operations on a Client                                              *)

get_profile(i) ==
    /\ client # << >>
    /\ calls[i].pc = "idle"
    /\ calls' = [calls EXCEPT ![i] =
            Sending("get_profile", client[1].region, << >>, get_profile_request(client[1]))]
    /\ client' = <<borrow_self(client[1])>>
    /\ UNCHANGED login

get_devices(i) ==
    /\ client # << >>
    /\ calls[i].pc = "idle"
    /\ calls' = [calls EXCEPT ![i] =
            Sending("get_devices", client[1].region, << >>, get_devices_request(client[1]))]
    /\ client' = <<borrow_self(client[1])>>
    /\ UNCHANGED login

get_tasks(i, only_device) ==
    /\ client # << >>
    /\ calls[i].pc = "idle"
    /\ calls' = [calls EXCEPT ![i] =
            Sending("get_tasks", client[1].region, only_device,
                    get_tasks_request(client[1], only_device))]
    /\ client' = <<borrow_self(client[1])>>
    /\ UNCHANGED login

get_bambu_camera_url(i, dev_id) ==
    /\ client # << >>
    /\ calls[i].pc = "idle"
    /\ calls' = [calls EXCEPT ![i] =
            Sending("get_bambu_camera_url", client[1].region, <<dev_id>>,
                    get_bambu_camera_url_request(dev_id, client[1]))]
    /\ client' = <<borrow_self(client[1])>>
    /\ UNCHANGED login

\* mqtt_host is a const fn: it returns at once and sends nothing.
mqtt_host_call(i) ==
    /\ client # << >>
    /\ calls[i].pc = "idle"
    /\ calls' = [calls EXCEPT ![i] =
            Done([Idle EXCEPT !.op = "mqtt_host", !.region = client[1].region],
                 Ok(mqtt_host(client[1])))]
    /\ client' = <<borrow_self(client[1])>>
    /\ UNCHANGED login

SendError(i) ==
    /\ calls[i].pc = "send"
    /\ calls' = [calls EXCEPT ![i] = AfterSendError(calls[i])]
    /\ UNCHANGED <<login, client>>

Responded(i, status) ==
    /\ calls[i].pc = "send"
    /\ calls' = [calls EXCEPT ![i] = AfterResponse(calls[i], status)]
    /\ UNCHANGED <<login, client>>

BodyError(i) ==
    /\ calls[i].pc = "body"
    /\ calls' = [calls EXCEPT ![i] = AfterBodyError(calls[i])]
    /\ UNCHANGED <<login, client>>

Body(i, body) ==
    /\ calls[i].pc = "body"
    /\ body \in BodiesOf(calls[i].op)
    /\ calls' = [calls EXCEPT ![i] = AfterBody(calls[i], body)]
    /\ UNCHANGED <<login, client>>

\* The caller takes the result; the slot is free for its next call.
Return(i) ==
    /\ calls[i].pc = "done"
    /\ calls' = [calls EXCEPT ![i] = Idle]
    /\ UNCHANGED <<login, client>>

Next ==
    \/ \E region \in Region, email \in Emails, password \in Passwords :
            LoginStart(region, email, password)
    \/ LoginSendError
    \/ \E status \in Statuses : LoginResponded(status)
    \/ LoginBodyError
    \/ \E body \in LoginBodies : LoginBody(body)
    \/ LoginFailed
    \/ \E i \in Calls : get_profile(i)
    \/ \E i \in Calls : get_devices(i)
    \/ \E i \in Calls, only_device \in OnlyDevice : get_tasks(i, only_device)
    \/ \E i \in Calls, dev_id \in DevIds : get_bambu_camera_url(i, dev_id)
    \/ \E i \in Calls : mqtt_host_call(i)
    \/ \E i \in Calls : SendError(i)
    \/ \E i \in Calls, status \in Statuses : Responded(i, status)
    \/ \E i \in Calls : BodyError(i)
    \/ \E i \in Calls : \E body \in BodiesOf(calls[i].op) : Body(i, body)
    \/ \E i \in Calls : Return(i)

Spec == Init /\ [][Next]_vars

----------------------------------------------------------------------------
(* Vocabulary of the properties                                            *)

Sent(call) == call.request # << >>

Finished(call) == call.pc = "done"

Failed(call) == Finished(call) /\ call.result.tag = "Err"

Succeeded(call) == Finished(call) /\ call.result.tag = "Ok"

SuccessStatus(call) == call.status # << >> /\ call.status[1] \in 200..299

\* The invocation ended on a network failure or a non-success status.
TransportFailure(call) ==
    /\ Finished(call)
    /\ call.op # "mqtt_host"
    /\ \/ call.status = << >>
       \/ ~SuccessStatus(call)
       \/ call.body = << >>

\* The error type through which an operation reports a reqwest::Error.
TransportVariant(op) ==
    CASE op = "login" -> "LoginError::Reqwest"
      [] op = "get_bambu_camera_url" -> "DeviceCameraError::Reqwest"
      [] OTHER -> "reqwest::Error"

\* The body has the keys and types the operation's typed shape needs.
WellShaped(call) ==
    /\ call.body # << >>
    /\ LET b == call.body[1]
       IN  CASE call.op = "login" -> IsOk(LoginResponse(b))
             [] call.op = "get_profile" -> IsOk(Account(b))
             [] call.op = "get_devices" -> IsOk(DevicesResponse(b))
             [] call.op = "get_tasks" -> IsOk(TasksResponse(b))
             [] call.op = "get_bambu_camera_url" -> IsOk(DeviceCameraResponse(b))
             [] OTHER -> FALSE

\* A success status and a whole body that does not have the typed shape.
ShapeFailure(call) ==
    Finished(call) /\ SuccessStatus(call) /\ call.body # << >> /\ ~WellShaped(call)

HasHeader(request, name, value) ==
    \E k \in 1..Len(request.headers) :
        request.headers[k].name = name /\ request.headers[k].value = value

HeaderNames(request) == {request.headers[k].name : k \in 1..Len(request.headers)}

RestHost(region) == IF region = "China" THEN "api.bambulab.cn" ELSE "api.bambulab.com"

MqttHost(region) ==
    IF region = "China" THEN "cn.mqtt.bambulab.com" ELSE "us.mqtt.bambulab.com"

ClientOps == {"get_profile", "get_devices", "get_tasks", "get_bambu_camera_url"}

----------------------------------------------------------------------------
(* C1: every request goes to api.bambulab.cn when the region is China and  *)
(* to api.bambulab.com for each of the four other regions, and mqtt_host   *)
(* returns cn.mqtt.bambulab.com for China and us.mqtt.bambulab.com for     *)
(* each of the others: nothing but "is it China" decides the hosts.        *)

C1_HostOf(call) ==
    /\ Sent(call) => call.request[1].url.host = RestHost(call.region)
    /\ (call.op = "mqtt_host" /\ Finished(call)) =>
            call.result.val = MqttHost(call.region)

\* C1: the host of every request and the result of mqtt_host follow from
\* "region = China" alone.
C1_EndpointSelection ==
    /\ C1_HostOf(login)
    /\ \A i \in Calls : C1_HostOf(calls[i])
    /\ \A i \in Calls : calls[i].pc # "idle" => calls[i].region = client[1].region
    /\ client # << >> => client[1].region = login.region

C1_Witness ==
    /\ login.region = "AsiaPacific"
    /\ Sent(login)
    /\ \E i, j \in Calls :
        /\ calls[i].op = "get_bambu_camera_url" /\ Sent(calls[i])
        /\ calls[i].request[1].url.host = "api.bambulab.com"
        /\ calls[j].op = "mqtt_host" /\ calls[j].result.val = "us.mqtt.bambulab.com"

----------------------------------------------------------------------------
(* C2: a Client exists only after a login whose request got a success      *)
(* status and whose accessToken decoded; from then on, whatever calls are  *)
(* made, its Token holds that accessToken string unchanged and the         *)
(* username claim of its payload, whether or not the signature is valid.   *)

\* The username claim of a credential header.payload.signature.
UsernameClaim(credential) == ClaimsOf(credential[Len(credential) - 2]).username

\* C2: a Client exists only after a successful login, and its Token is the
\* login's accessToken, unchanged, with the username claim of its payload.
C2_TokenIsLoginCredential ==
    /\ client = << >> => ~Succeeded(login)
    /\ client # << >> =>
        /\ Succeeded(login)
        /\ SuccessStatus(login)
        /\ login.body # << >>
        /\ "accessToken" \in DOMAIN login.body[1]
        /\ client[1].auth_token.jwt = login.body[1]["accessToken"].val
        /\ client[1].auth_token.username =
                UsernameClaim(login.body[1]["accessToken"].val)
        /\ client[1].auth_token.username # << >>

C2_Witness ==
    /\ client # << >>
    /\ client[1].auth_token.jwt[Len(client[1].auth_token.jwt)] = "sig:forged"
    /\ client[1].auth_token.username = <<"alice">>
    /\ \E i, j \in Calls :
        /\ Succeeded(calls[i]) /\ calls[i].op = "get_devices"
        /\ Failed(calls[j]) /\ calls[j].op = "get_bambu_camera_url"

----------------------------------------------------------------------------
(* C3: a login that ends on a network failure or a non-success status      *)
(* returns LoginError::Reqwest, a login whose response has a success       *)
(* status and an accessToken that is no claims token returns               *)
(* LoginError::Decode, and neither leaves a Client.                        *)

----------------------------------------------------------------------------
(* C4: for login, get_profile, get_devices and get_tasks, a success status *)
(* with a body of the wrong shape ends in an error of kind Decode, a       *)
(* network failure or non-success status in an error of another kind       *)
(* (Request, Status, Body), so the two are never the same result.          *)

C4_Ops == {"login", "get_profile", "get_devices", "get_tasks"}

C4_Kinds(call) ==
    call.op \in C4_Ops =>
        /\ ShapeFailure(call) =>
                Failed(call) /\ call.result.kind = "Decode"
        /\ TransportFailure(call) =>
                Failed(call) /\ call.result.kind \in {"Request", "Status", "Body"}

----------------------------------------------------------------------------
(* C5: a get_tasks request has exactly the query parameters limit = 500    *)
(* and deviceId, deviceId being the empty string for None and id for       *)
(* Some(id); a successful get_tasks returns the hits of the response in    *)
(* the order of the response, and nothing of total.                        *)

C5_TasksCall(call) ==
    call.op = "get_tasks" =>
        /\ Sent(call) =>
            LET q == call.request[1].query
            IN  /\ Len(q) = 2
                /\ \E k \in 1..2 : q[k] = Pair("limit", <<"500">>)
                /\ \E k \in 1..2 :
                        /\ q[k].name = "deviceId"
                        /\ call.arg = << >> => q[k].value = << >>
                        /\ call.arg # << >> => q[k].value = call.arg[1]
        /\ Succeeded(call) =>
            /\ WellShaped(call)
            /\ call.result.val = call.body[1]["hits"].val

\* C5: get_tasks sends limit=500 and deviceId (empty for None) and returns
\* the hits of the response in order.
C5_TasksQueryAndHits == \A i \in Calls : C5_TasksCall(calls[i])

C5_Witness ==
    \E i, j \in Calls :
        /\ calls[i].op = "get_tasks" /\ calls[i].arg = << >>
        /\ Succeeded(calls[i])
        /\ calls[i].result.val = <<"task2", "task1">>
        /\ calls[i].body[1]["total"].val = <<"9">>
        /\ calls[j].op = "get_tasks" /\ calls[j].arg = << <<"d1">> >>
        /\ Sent(calls[j])

----------------------------------------------------------------------------
(* C6: every request of get_profile, get_devices, get_tasks and            *)
(* get_bambu_camera_url has the header Authorization: Bearer <jwt of the   *)
(* Token>, the ttcode request also has user-id: <username of the Token>,   *)
(* and the login request is the one request without Authorization.         *)

C6_Headers(call) ==
    Sent(call) =>
        /\ call.op \in ClientOps
        /\ HasHeader(call.request[1], "Authorization",
                     <<"Bearer ">> \o client[1].auth_token.jwt)
        /\ \A k \in 1..Len(call.request[1].headers) :
                call.request[1].headers[k].name = "Authorization" =>
                    call.request[1].headers[k].value =
                        <<"Bearer ">> \o client[1].auth_token.jwt
        /\ call.op = "get_bambu_camera_url" =>
                /\ HasHeader(call.request[1], "user-id", client[1].auth_token.username)
                /\ \A k \in 1..Len(call.request[1].headers) :
                        call.request[1].headers[k].name = "user-id" =>
                            call.request[1].headers[k].value =
                                client[1].auth_token.username

\* C6: Authorization: Bearer <jwt> on every request but the login request,
\* and user-id: <username> on the ttcode request.
C6_AuthorizationHeaders ==
    /\ \A i \in Calls : C6_Headers(calls[i])
    /\ Sent(login) =>
            login.op = "login" /\ "Authorization" \notin HeaderNames(login.request[1])

C6_Witness ==
    /\ Sent(login)
    /\ \E i, j \in Calls :
        /\ calls[i].op = "get_bambu_camera_url" /\ Sent(calls[i])
        /\ HasHeader(calls[i].request[1], "user-id", <<"bob">>)
        /\ calls[j].op = "get_profile" /\ Sent(calls[j])

----------------------------------------------------------------------------
(* C7: whenever get_bambu_camera_url succeeds, the URL has scheme bambu,   *)
(* path /<ttcode> and exactly the query parameters authkey, passwd and     *)
(* region, in that order, with the values of the response.                 *)

C7_Name(n) ==
    CASE n = 1 -> <<"a", "u", "t", "h", "k", "e", "y">>
      [] n = 2 -> <<"p", "a", "s", "s", "w", "d">>
      [] n = 3 -> <<"r", "e", "g", "i", "o", "n">>

C7_ReadsBack(url, session) ==
    /\ url.scheme = <<"b", "a", "m", "b", "u">>
    /\ url.path = <<"/">> \o session["ttcode"].val
    /\ query_pairs(url) =
            << <<C7_Name(1), session["authkey"].val>>,
               <<C7_Name(2), session["passwd"].val>>,
               <<C7_Name(3), session["region"].val>> >>

\* C7: the URL of every successful get_bambu_camera_url reads back as the
\* ttcode, authkey, passwd and region of the response.
C7_CameraUrlRoundTrip ==
    \A i \in Calls :
        (calls[i].op = "get_bambu_camera_url" /\ Succeeded(calls[i])) =>
            C7_ReadsBack(calls[i].result.val, calls[i].body[1])

----------------------------------------------------------------------------
(* C8: get_bambu_camera_url ends in DeviceCameraError::Url whenever one of *)
(* the four values of the session holds a character that would have to be  *)
(* percent-encoded to stand in its place of the URL; that error differs    *)
(* from the transport and decode errors, no other operation returns it,    *)
(* and it comes only after a success status and a decoded body.            *)

\* Characters that end the path, the query or a query parameter.
C8_Delimiters == {"?", "#", "&"}

C8_NeedsEncoding(session) ==
    \E key \in {"ttcode", "authkey", "passwd", "region"} :
        \E c \in C8_Delimiters : Contains(session[key].val, c)

C8_Call(call) ==
    /\ (/\ call.op = "get_bambu_camera_url"
        /\ Finished(call)
        /\ WellShaped(call)
        /\ C8_NeedsEncoding(call.body[1])) =>
            call.result.variant = "DeviceCameraError::Url"
    /\ call.result.variant = "DeviceCameraError::Url" =>
            /\ call.op = "get_bambu_camera_url"
            /\ SuccessStatus(call)
            /\ WellShaped(call)

----------------------------------------------------------------------------
(* C9: however the calls on one Client interleave, no step changes the     *)
(* Client's region or Token once login has set them, and the request of    *)
(* every call in flight is the one its operation builds from the region    *)
(* and Token of the login.                                                 *)

C9_RequestFrom(call, c) ==
    CASE call.op = "get_profile" -> get_profile_request(c)
      [] call.op = "get_devices" -> get_devices_request(c)
      [] call.op = "get_tasks" -> get_tasks_request(c, call.arg)
      [] call.op = "get_bambu_camera_url" -> get_bambu_camera_url_request(call.arg[1], c)

\* C9: no step changes the Client once it exists, and every request in flight
\* is built from the region and Token of the login.
C9_ClientFixedAtLogin ==
    /\ [][client # << >> => client' = client]_vars
    /\ [](\A i \in Calls :
            /\ Sent(calls[i]) =>
                    calls[i].request[1] = C9_RequestFrom(calls[i], login.result.val)
            /\ (calls[i].op = "mqtt_host" /\ Finished(calls[i])) =>
                    calls[i].result.val = mqtt_host(login.result.val))

C9_Witness ==
    /\ calls[1].op = "get_tasks" /\ calls[1].pc = "body"
    /\ calls[2].op = "get_bambu_camera_url" /\ calls[2].pc = "send"
    /\ client = <<login.result.val>>

----------------------------------------------------------------------------
(* C10: an invocation calls send() once; when it ends on a network failure *)
(* or a non-success status it returns the transport error and has decoded  *)
(* no body, and it returns a value only after a success status and a       *)
(* whole body of the typed shape.                                          *)

C10_Invocation(call) ==
    /\ (call.pc # "idle" /\ call.op # "mqtt_host") =>
            call.sends = 1 /\ Len(call.request) = 1
    /\ Finished(call) => call.result.tag \in {"Ok", "Err"}
    /\ ~Finished(call) => call.result = NoResult
    /\ TransportFailure(call) =>
            /\ Failed(call)
            /\ call.result.variant = TransportVariant(call.op)
            /\ call.result.kind \in {"Request", "Status", "Body"}
            /\ ~call.decoded
            /\ call.body = << >>
    /\ (Succeeded(call) /\ call.op # "mqtt_host") =>
            /\ SuccessStatus(call)
            /\ call.decoded
            /\ WellShaped(call)

====
